---- MODULE Spec2Model ----
(***************************************************************************)
(* Model of create_bulk_template.py: the linear procedure that builds the  *)
(* Flash Express bulk-shipments workbook (Shipments, Choices and           *)
(* Instructions sheets) and saves it, together with the module-level       *)
(* imports and the __main__ try/except around it.                          *)
(*                                                                         *)
(* Text that the program composes or that a spreadsheet application later  *)
(* takes apart (cell ranges, formula1, category keys) is a sequence of     *)
(* one-character strings (the sheet name is kept as one token), so that    *)
(* formatting and parsing are computed, not assumed.  Cell values that are *)
(* only copied are plain strings.  Fonts, fills and alignments are not     *)
(* part of the state.                                                      *)
(***************************************************************************)
EXTENDS Integers, Sequences, FiniteSets, TLC

VARIABLES pc, i, j, wb, file, stdout, run, libs, exc, writes, outputs

vars == <<pc, i, j, wb, file, stdout, run, libs, exc, writes, outputs>>

\* Number of successive invocations of the script that are explored.
MaxRuns == 2

(***************************************************************************)
(* Text helpers: Python's str(int) and openpyxl's get_column_letter.       *)
(***************************************************************************)
Digits == <<"0", "1", "2", "3", "4", "5", "6", "7", "8", "9">>

Letters == <<"A", "B", "C", "D", "E", "F", "G", "H", "I", "J", "K", "L", "M",
             "N", "O", "P", "Q", "R", "S", "T", "U", "V", "W", "X", "Y", "Z">>

RECURSIVE StrOfNat(_)
StrOfNat(n) ==
    IF n < 10 THEN <<Digits[n + 1]>>
    ELSE StrOfNat(n \div 10) \o <<Digits[(n % 10) + 1]>>

get_column_letter(n) ==
    IF n <= 26 THEN <<Letters[n]>>
    ELSE <<Letters[(n - 1) \div 26], Letters[((n - 1) % 26) + 1]>>

\* str.replace(old, new) on a text of one-character strings and word tokens.
Replace(s, old, new) == [k \in 1..Len(s) |-> IF s[k] = old THEN new ELSE s[k]]

(***************************************************************************)
(* The hard-coded data of create_bulk_shipments_template.                  *)
(***************************************************************************)
headers == <<
    "Client Email", "Recipient Name", "Recipient Phone", "Package Description",
    "Package Value (EGP)", "From Street", "From Details", "From City",
    "From Zone", "To Street", "To Details", "To City", "To Zone",
    "Payment Method", "Amount to Collect", "Is Large Order",
    "Package Weight (kg)", "Package Dimensions (LxWxH cm)", "Notes">>

column_widths == <<20, 20, 15, 25, 15, 20, 15, 15, 15, 20, 15, 15, 15, 15, 15, 12, 15, 25, 30>>

\* The dict literal, in insertion order (the order .items() iterates in).
choices_data == <<
    [category |-> <<"Client", "_", "Emails">>,
     choices  |-> <<"admin@flash.com", "testclient@flash.com", "client@flash.com">>],
    [category |-> <<"Payment", "_", "Methods">>,
     choices  |-> <<"COD", "Transfer", "Wallet">>],
    [category |-> <<"Cities">>,
     choices  |-> <<"Cairo", "Alexandria", "Giza", "Sharm El Sheikh", "Hurghada",
                    "Luxor", "Aswan", "Port Said", "Suez", "Ismailia">>],
    [category |-> <<"Cairo", "_", "Zones">>,
     choices  |-> <<"Nasr City", "Heliopolis", "Maadi", "Zamalek", "Downtown",
                    "Dokki", "Mohandessin", "New Cairo", "6th of October", "Shoubra">>],
    [category |-> <<"Alexandria", "_", "Zones">>,
     choices  |-> <<"Downtown", "Sidi Gaber", "Montaza", "Smouha", "Miami",
                    "Gleem", "Sporting", "Stanley", "Camp Cesar", "Baccos">>],
    [category |-> <<"Giza", "_", "Zones">>,
     choices  |-> <<"Dokki", "Mohandessin", "Agouza", "Haram", "6th of October",
                    "Sheikh Zayed", "Smart Village", "Faisal", "Imbaba", "Bulaq">>],
    [category |-> <<"Package", "_", "Descriptions">>,
     choices  |-> <<"Electronics - Smartphone", "Electronics - Laptop",
                    "Electronics - Tablet", "Electronics - Headphones",
                    "Electronics - Camera", "Clothing - T-Shirt", "Clothing - Jeans",
                    "Clothing - Shoes", "Clothing - Dress", "Clothing - Jacket",
                    "Books - Novel", "Books - Textbook", "Books - Magazine",
                    "Home & Garden - Kitchen Appliances", "Home & Garden - Furniture",
                    "Home & Garden - Decor", "Food & Beverages - Snacks",
                    "Food & Beverages - Drinks", "Documents - Legal Papers",
                    "Documents - Certificates", "Gifts - Birthday Gift",
                    "Gifts - Wedding Gift", "Medical - Medication",
                    "Beauty - Cosmetics", "Sports - Equipment">>],
    [category |-> <<"Package", "_", "Values">>,
     choices  |-> <<"50", "100", "150", "200", "250", "300", "400",
                    "500", "750", "1000", "1500", "2000", "3000", "5000">>],
    [category |-> <<"Large", "_", "Order", "_", "Options">>,
     choices  |-> <<"TRUE", "FALSE">>],
    [category |-> <<"Street", "_", "Examples">>,
     choices  |-> <<"123 Main St", "456 Oak Ave", "789 Pine St", "321 Cedar Ln",
                    "654 Elm Rd", "987 Maple Dr", "147 Birch Way", "258 Willow Ct",
                    "369 Palm Blvd", "741 Rose Ave">>],
    [category |-> <<"Building", "_", "Details">>,
     choices  |-> <<"Apt 101", "Floor 3", "Building 5", "Suite 201", "Unit 12",
                    "Villa 25", "Office 304", "Shop 15", "Penthouse", "Ground Floor">>]
    >>

\* Variant: the last constrained row is one short.
end_row_short == 1000 - 1

end_row == 1000

\* Variant: the Cities source range stops one row early, at $C$10.
dropdown_calls_cities_short == <<
    [column_letter |-> <<"A">>, start_row |-> 2, end_row |-> 1000,
     choices_range |-> <<"$", "A", "$", "2", ":", "$", "A", "$", "4">>],
    [column_letter |-> <<"N">>, start_row |-> 2, end_row |-> 1000,
     choices_range |-> <<"$", "B", "$", "2", ":", "$", "B", "$", "4">>],
    [column_letter |-> <<"H">>, start_row |-> 2, end_row |-> 1000,
     choices_range |-> <<"$", "C", "$", "2", ":", "$", "C", "$", "1", "0">>],
    [column_letter |-> <<"L">>, start_row |-> 2, end_row |-> 1000,
     choices_range |-> <<"$", "C", "$", "2", ":", "$", "C", "$", "1", "0">>],
    [column_letter |-> <<"D">>, start_row |-> 2, end_row |-> 1000,
     choices_range |-> <<"$", "G", "$", "2", ":", "$", "G", "$", "2", "6">>],
    [column_letter |-> <<"E">>, start_row |-> 2, end_row |-> 1000,
     choices_range |-> <<"$", "H", "$", "2", ":", "$", "H", "$", "1", "5">>],
    [column_letter |-> <<"P">>, start_row |-> 2, end_row |-> 1000,
     choices_range |-> <<"$", "I", "$", "2", ":", "$", "I", "$", "3">>]
    >>

\* Variant: the Payment Method dropdown is put on column M (To Zone).
dropdown_calls_wrong_letter == <<
    [column_letter |-> <<"A">>, start_row |-> 2, end_row |-> 1000,
     choices_range |-> <<"$", "A", "$", "2", ":", "$", "A", "$", "4">>],
    [column_letter |-> <<"M">>, start_row |-> 2, end_row |-> 1000,
     choices_range |-> <<"$", "B", "$", "2", ":", "$", "B", "$", "4">>],
    [column_letter |-> <<"H">>, start_row |-> 2, end_row |-> 1000,
     choices_range |-> <<"$", "C", "$", "2", ":", "$", "C", "$", "1", "1">>],
    [column_letter |-> <<"L">>, start_row |-> 2, end_row |-> 1000,
     choices_range |-> <<"$", "C", "$", "2", ":", "$", "C", "$", "1", "1">>],
    [column_letter |-> <<"D">>, start_row |-> 2, end_row |-> 1000,
     choices_range |-> <<"$", "G", "$", "2", ":", "$", "G", "$", "2", "6">>],
    [column_letter |-> <<"E">>, start_row |-> 2, end_row |-> 1000,
     choices_range |-> <<"$", "H", "$", "2", ":", "$", "H", "$", "1", "5">>],
    [column_letter |-> <<"P">>, start_row |-> 2, end_row |-> 1000,
     choices_range |-> <<"$", "I", "$", "2", ":", "$", "I", "$", "3">>]
    >>

\* The seven create_dropdown calls, in program order:
\* (column_letter, start_row, end_row, choices_range).
dropdown_calls == <<
    [column_letter |-> <<"A">>, start_row |-> 2, end_row |-> end_row,
     choices_range |-> <<"$", "A", "$", "2", ":", "$", "A", "$", "4">>],
    [column_letter |-> <<"N">>, start_row |-> 2, end_row |-> end_row,
     choices_range |-> <<"$", "B", "$", "2", ":", "$", "B", "$", "4">>],
    [column_letter |-> <<"H">>, start_row |-> 2, end_row |-> end_row,
     choices_range |-> <<"$", "C", "$", "2", ":", "$", "C", "$", "1", "1">>],
    [column_letter |-> <<"L">>, start_row |-> 2, end_row |-> end_row,
     choices_range |-> <<"$", "C", "$", "2", ":", "$", "C", "$", "1", "1">>],
    [column_letter |-> <<"D">>, start_row |-> 2, end_row |-> end_row,
     choices_range |-> <<"$", "G", "$", "2", ":", "$", "G", "$", "2", "6">>],
    [column_letter |-> <<"E">>, start_row |-> 2, end_row |-> end_row,
     choices_range |-> <<"$", "H", "$", "2", ":", "$", "H", "$", "1", "5">>],
    [column_letter |-> <<"P">>, start_row |-> 2, end_row |-> end_row,
     choices_range |-> <<"$", "I", "$", "2", ":", "$", "I", "$", "3">>]
    >>

\* Variant: the first sample row's payment method is not one of the choices.
sample_data_cash == <<
    <<"testclient@flash.com", "John Doe", "+201234567890", "Electronics - Smartphone",
      "500", "123 Main St", "Apt 101", "Cairo", "Nasr City",
      "456 Oak Ave", "Building 5", "Alexandria", "Downtown", "Cash",
      "520", "FALSE", "0.5", "15x10x5", "Sample shipment 1">>,
    <<"testclient@flash.com", "Jane Smith", "+201987654321", "Clothing - T-Shirt",
      "150", "123 Main St", "Apt 101", "Cairo", "Nasr City",
      "789 Pine St", "Floor 3", "Giza", "Dokki", "Transfer",
      "0", "FALSE", "0.3", "20x15x2", "Sample shipment 2">>
    >>

sample_data == <<
    <<"testclient@flash.com", "John Doe", "+201234567890", "Electronics - Smartphone",
      "500", "123 Main St", "Apt 101", "Cairo", "Nasr City",
      "456 Oak Ave", "Building 5", "Alexandria", "Downtown", "COD",
      "520", "FALSE", "0.5", "15x10x5", "Sample shipment 1">>,
    <<"testclient@flash.com", "Jane Smith", "+201987654321", "Clothing - T-Shirt",
      "150", "123 Main St", "Apt 101", "Cairo", "Nasr City",
      "789 Pine St", "Floor 3", "Giza", "Dokki", "Transfer",
      "0", "FALSE", "0.3", "20x15x2", "Sample shipment 2">>
    >>

\* Rows of the Instructions sheet (bullets written as "-").
instructions == <<
    "FLASH EXPRESS BULK SHIPMENTS TEMPLATE",
    "",
    "INSTRUCTIONS:",
    "1. Use the 'Shipments' sheet to enter your bulk shipment data",
    "2. Most columns have dropdown menus - click the arrow to select from predefined options",
    "3. The 'Choices' sheet contains all the dropdown options - you can modify these as needed",
    "",
    "REQUIRED FIELDS:",
    "- Client Email - Must be a valid registered client email",
    "- Recipient Name - Full name of the person receiving the package",
    "- Recipient Phone - Phone number in format +201234567890",
    "- Package Description - Brief description of package contents",
    "- Package Value - Monetary value of the package in EGP",
    "- From/To Address Fields - Complete address information",
    "- Payment Method - COD, Transfer, or Wallet",
    "",
    "NOTES:",
    "- For COD shipments, 'Amount to Collect' = Package Value + Shipping Fee",
    "- For Transfer shipments, 'Amount to Collect' can be 0 if no additional amount needed",
    "- For Wallet shipments, 'Amount to Collect' should typically be 0",
    "- Is Large Order: TRUE for packages requiring special handling",
    "- Package Weight in kilograms (e.g., 0.5, 1.2, 2.0)",
    "- Package Dimensions in LxWxH format in centimeters (e.g., 15x10x5)",
    "",
    "AFTER COMPLETING:",
    "1. Save this file",
    "2. Upload it to the Flash Express bulk shipment import feature",
    "3. Review the preview before confirming the import",
    "",
    "For support, contact: admin@flash.com">>

filename == "Flash_Express_Bulk_Shipments_Template.xlsx"


(***************************************************************************)
(* The openpyxl objects the script uses: a workbook is its list of sheets  *)
(* and _active_sheet_index (0-based); a sheet is its title, its populated  *)
(* cells (<<row, column>> -> value), its column widths (column letter ->   *)
(* width) and its data validations.                                        *)
(***************************************************************************)
NoCells == [p \in {} |-> ""]

NoWidths == [l \in {} |-> 0]

NewSheet(title) ==
    [title |-> title, cells |-> NoCells, widths |-> NoWidths, validations |-> <<>>]

NoWorkbook == [sheets |-> <<>>, active |-> 0]

\* Variant: start from the workbook already at the output path, if any.
WorkbookFromFile ==
    IF file.state = "written" THEN file.doc
    ELSE [sheets |-> <<NewSheet("Sheet")>>, active |-> 0]

\* wb = Workbook(): one default sheet titled "Sheet", which is the active one.
Workbook == [sheets |-> <<NewSheet("Sheet")>>, active |-> 0]

\* Variant: the default sheet is kept.
RemoveActiveKeepsSheet(w) == w

\* wb.remove(wb.active)
RemoveActive(w) ==
    [w EXCEPT !.sheets = SubSeq(w.sheets, 1, w.active) \o
                         SubSeq(w.sheets, w.active + 2, Len(w.sheets))]

\* wb.create_sheet(title): the new sheet goes to the end of the list.
create_sheet(w, title) == [w EXCEPT !.sheets = Append(w.sheets, NewSheet(title))]

\* The sheet object a local variable (shipments_sheet, ...) refers to.
SheetIndex(w, title) ==
    CHOOSE k \in 1..Len(w.sheets) :
        /\ w.sheets[k].title = title
        /\ \A m \in 1..(k - 1) : w.sheets[m].title # title

HasSheet(w, title) == \E k \in 1..Len(w.sheets) : w.sheets[k].title = title

\* sheet.cell(row=r, column=c, value=v)
SetCell(w, title, r, c, v) ==
    LET k == SheetIndex(w, title)
    IN  [w EXCEPT !.sheets[k].cells = (<<r, c>> :> v) @@ w.sheets[k].cells]

\* sheet.column_dimensions[letter].width = width
SetWidth(w, title, letter, width) ==
    LET k == SheetIndex(w, title)
    IN  [w EXCEPT !.sheets[k].widths = (letter :> width) @@ w.sheets[k].widths]

\* wb.active = sheet
SetActive(w, title) == [w EXCEPT !.active = SheetIndex(w, title) - 1]

\* enumerate(seq, start): the number paired with the k-th element (k from 1).
enumerate(k, start) == start + (k - 1)

\* for col, header in enumerate(headers, 1): cell(row=1, column=col)
HeaderCell(k) == [row |-> 1, column |-> enumerate(k, 1)]

\* for row, choice in enumerate(choices, 2): cell(row=row, column=col)
ChoiceCell(col, k) == [row |-> enumerate(k, 2), column |-> col]

\* Variant: the sample rows are numbered from 1.
SampleCellFromRowOne(r, c) == [row |-> r, column |-> c]

\* for row_idx .. enumerate(sample_data, 2): for col_idx .. enumerate(row_data, 1)
SampleCell(r, c) == [row |-> enumerate(r, 2), column |-> enumerate(c, 1)]

\* for row, instruction in enumerate(instructions, 1): cell(row=row, column=1)
InstructionCell(k) == [row |-> enumerate(k, 1), column |-> 1]

\* Body of the loop over choices_data.items() for the category at position
\* col: the header (underscores replaced by spaces), the choices below it,
\* and the column width.
RECURSIVE WriteChoices(_, _, _, _)
WriteChoices(w, col, choices, k) ==
    IF k > Len(choices) THEN w
    ELSE WriteChoices(SetCell(w, "Choices", ChoiceCell(col, k).row,
                              ChoiceCell(col, k).column, choices[k]),
                      col, choices, k + 1)

WriteCategory(w, col) ==
    LET entry  == choices_data[col]
        w1     == SetCell(w, "Choices", 1, col, Replace(entry.category, "_", " "))
        w2     == WriteChoices(w1, col, entry.choices, 1)
    IN  SetWidth(w2, "Choices", get_column_letter(col), 25)

\* create_dropdown(sheet, column_letter, start_row, end_row, choices_range)
create_dropdown(w, title, column_letter, start_row, end_row_, choices_range) ==
    LET dv == [type         |-> "list",
               formula1     |-> <<"Choices", ".">> \o choices_range,
               showDropDown |-> TRUE,
               error        |-> "Please select a value from the dropdown list",
               errorTitle   |-> "Invalid Entry",
               sqref        |-> column_letter \o StrOfNat(start_row) \o <<":">> \o
                                column_letter \o StrOfNat(end_row_)]
        k  == SheetIndex(w, title)
    IN  [w EXCEPT !.sheets[k].validations = Append(w.sheets[k].validations, dv)]

(***************************************************************************)
(* Output: the file at `filename`, standard output, exceptions.            *)
(***************************************************************************)
Absent  == [state |-> "absent",  doc |-> NoWorkbook]
Stale   == [state |-> "stale",   doc |-> NoWorkbook]
Partial == [state |-> "partial", doc |-> NoWorkbook]
Written(w) == [state |-> "written", doc |-> w]

NoExc == [type |-> "None", msg |-> ""]

Line(text, arg) == [text |-> text, arg |-> arg]

\* The six print calls after wb.save(filename).
SuccessLines == <<
    Line("Template created successfully: ", filename),
    Line("The template includes:", ""),
    Line("   - Shipments sheet with dropdown menus", ""),
    Line("   - Choices sheet with all dropdown options", ""),
    Line("   - Instructions sheet with detailed guidance", ""),
    Line("   - Sample data rows for reference", "")>>

\* The except clauses of the __main__ block, tried in order.
IsImportError(e) == e.type \in {"ImportError", "ModuleNotFoundError"}

ExceptHandler(e) ==
    IF IsImportError(e)
    THEN <<Line("Missing required libraries. Please install them with:", ""),
           Line("pip install pandas openpyxl", ""),
           Line("Error: ", e.msg)>>
    ELSE <<Line("Error creating template: ", e.msg)>>

\* Errors that can surface while the workbook is built or written.
ConstructionErrors == {[type |-> "MemoryError", msg |-> "out of memory"]}

SaveErrors == {[type |-> "PermissionError", msg |-> "Permission denied"],
               [type |-> "OSError", msg |-> "No space left on device"]}

\* Program positions inside create_bulk_shipments_template before wb.save.
BuildPcs == {"workbook", "remove_default", "create_shipments", "create_choices",
             "headers", "widths", "choices", "dropdowns", "samples",
             "create_instructions", "instructions", "set_active"}


(***************************************************************************)
(* The program, one action per statement (one per iteration for loops).    *)
(***************************************************************************)
Init ==
    /\ pc = "import"
    /\ i = 1
    /\ j = 1
    /\ wb = NoWorkbook
    /\ file \in {Absent, Stale}
    /\ stdout = <<>>
    /\ run = 1
    /\ libs \in BOOLEAN
    /\ exc = NoExc
    /\ writes = 0
    /\ outputs = <<>>

\* Lines 6-11: the module-level imports succeed.
ImportOk ==
    /\ pc = "import"
    /\ libs
    /\ pc' = "main"
    /\ UNCHANGED <<i, j, wb, file, stdout, run, libs, exc, writes, outputs>>

\* Lines 6-11: pandas or openpyxl is not installed.  The import statements
\* are outside the try block, so the error propagates out of the module:
\* the interpreter prints a traceback on stderr and exits with status 1.
ImportFail ==
    /\ pc = "import"
    /\ ~libs
    /\ exc' = [type |-> "ModuleNotFoundError", msg |-> "No module named 'openpyxl'"]
    /\ pc' = "crashed"
    /\ UNCHANGED <<i, j, wb, file, stdout, run, libs, writes, outputs>>

\* Lines 307-309: enter the try block and call the builder.
EnterMain ==
    /\ pc = "main"
    /\ pc' = "workbook"
    /\ UNCHANGED <<i, j, wb, file, stdout, run, libs, exc, writes, outputs>>

CreateWorkbook ==
    /\ pc = "workbook"
    /\ wb' = Workbook
    /\ pc' = "remove_default"
    /\ UNCHANGED <<i, j, file, stdout, run, libs, exc, writes, outputs>>

RemoveDefault ==
    /\ pc = "remove_default"
    /\ wb' = RemoveActive(wb)
    /\ pc' = "create_shipments"
    /\ UNCHANGED <<i, j, file, stdout, run, libs, exc, writes, outputs>>

CreateShipments ==
    /\ pc = "create_shipments"
    /\ wb' = create_sheet(wb, "Shipments")
    /\ pc' = "create_choices"
    /\ UNCHANGED <<i, j, file, stdout, run, libs, exc, writes, outputs>>

CreateChoices ==
    /\ pc = "create_choices"
    /\ wb' = create_sheet(wb, "Choices")
    /\ pc' = "headers"
    /\ i' = 1
    /\ UNCHANGED <<j, file, stdout, run, libs, exc, writes, outputs>>

WriteHeader ==
    /\ pc = "headers"
    /\ wb' = SetCell(wb, "Shipments", HeaderCell(i).row, HeaderCell(i).column, headers[i])
    /\ IF i < Len(headers)
       THEN i' = i + 1 /\ pc' = pc
       ELSE i' = 1 /\ pc' = "widths"
    /\ UNCHANGED <<j, file, stdout, run, libs, exc, writes, outputs>>

SetColumnWidth ==
    /\ pc = "widths"
    /\ wb' = SetWidth(wb, "Shipments", get_column_letter(enumerate(i, 1)), column_widths[i])
    /\ IF i < Len(column_widths)
       THEN i' = i + 1 /\ pc' = pc
       ELSE i' = 1 /\ pc' = "choices"
    /\ UNCHANGED <<j, file, stdout, run, libs, exc, writes, outputs>>

\* One iteration of the loop over choices_data.items(); i is `col`, which
\* starts at 1 and is incremented once per category.
WriteChoiceCategory ==
    /\ pc = "choices"
    /\ wb' = WriteCategory(wb, i)
    /\ IF i < Len(choices_data)
       THEN i' = i + 1 /\ pc' = pc
       ELSE i' = 1 /\ pc' = "dropdowns"
    /\ UNCHANGED <<j, file, stdout, run, libs, exc, writes, outputs>>

AddDropdown ==
    /\ pc = "dropdowns"
    /\ LET c == dropdown_calls[i]
       IN  wb' = create_dropdown(wb, "Shipments", c.column_letter, c.start_row,
                                 c.end_row, c.choices_range)
    /\ IF i < Len(dropdown_calls)
       THEN i' = i + 1 /\ pc' = pc
       ELSE i' = 1 /\ pc' = "samples"
    /\ j' = 1
    /\ UNCHANGED <<file, stdout, run, libs, exc, writes, outputs>>

\* i is the position of the sample row, j the position of the value in it.
WriteSample ==
    /\ pc = "samples"
    /\ wb' = SetCell(wb, "Shipments", SampleCell(i, j).row, SampleCell(i, j).column,
                     sample_data[i][j])
    /\ IF j < Len(sample_data[i])
       THEN i' = i /\ j' = j + 1 /\ pc' = pc
       ELSE IF i < Len(sample_data)
            THEN i' = i + 1 /\ j' = 1 /\ pc' = pc
            ELSE i' = 1 /\ j' = 1 /\ pc' = "create_instructions"
    /\ UNCHANGED <<file, stdout, run, libs, exc, writes, outputs>>

CreateInstructions ==
    /\ pc = "create_instructions"
    /\ wb' = SetWidth(create_sheet(wb, "Instructions"), "Instructions", <<"A">>, 80)
    /\ pc' = "instructions"
    /\ i' = 1
    /\ UNCHANGED <<j, file, stdout, run, libs, exc, writes, outputs>>

WriteInstruction ==
    /\ pc = "instructions"
    /\ wb' = SetCell(wb, "Instructions", InstructionCell(i).row,
                     InstructionCell(i).column, instructions[i])
    /\ IF i < Len(instructions)
       THEN i' = i + 1 /\ pc' = pc
       ELSE i' = 1 /\ pc' = "set_active"
    /\ UNCHANGED <<j, file, stdout, run, libs, exc, writes, outputs>>

Activate ==
    /\ pc = "set_active"
    /\ wb' = SetActive(wb, "Shipments")
    /\ pc' = "save"
    /\ UNCHANGED <<i, j, file, stdout, run, libs, exc, writes, outputs>>

\* wb.save(filename) returns: the file now holds the workbook.
Save ==
    /\ pc = "save"
    /\ file' = Written(wb)
    /\ writes' = writes + 1
    /\ outputs' = Append(outputs, wb)
    /\ pc' = "print_success"
    /\ UNCHANGED <<i, j, wb, stdout, run, libs, exc>>

\* Variant: an error of wb.save is swallowed and the run goes on.
SaveFailSwallowed ==
    /\ pc = "save"
    /\ \E e \in SaveErrors, opened \in BOOLEAN :
          /\ exc' = e
          /\ file' = IF opened THEN Partial ELSE file
          /\ writes' = IF opened THEN writes + 1 ELSE writes
    /\ pc' = "print_success"
    /\ UNCHANGED <<i, j, wb, stdout, run, libs, outputs>>

\* wb.save(filename) raises: either the file could not be opened for
\* writing (it is left as it was) or the write broke off part-way.
SaveFail ==
    /\ pc = "save"
    /\ \E e \in SaveErrors, opened \in BOOLEAN :
          /\ exc' = e
          /\ file' = IF opened THEN Partial ELSE file
          /\ writes' = IF opened THEN writes + 1 ELSE writes
    /\ pc' = "handler"
    /\ UNCHANGED <<i, j, wb, stdout, run, libs, outputs>>

PrintSuccess ==
    /\ pc = "print_success"
    /\ stdout' = stdout \o SuccessLines
    /\ pc' = "exit"
    /\ UNCHANGED <<i, j, wb, file, run, libs, exc, writes, outputs>>

\* An exception raised by a statement of the builder before wb.save.
RaiseInBuild ==
    /\ pc \in BuildPcs
    /\ \E e \in ConstructionErrors : exc' = e
    /\ pc' = "handler"
    /\ UNCHANGED <<i, j, wb, file, stdout, run, libs, writes, outputs>>

\* Lines 310-315: the matching except clause prints; the script then ends.
Handle ==
    /\ pc = "handler"
    /\ stdout' = stdout \o ExceptHandler(exc)
    /\ pc' = "exit"
    /\ UNCHANGED <<i, j, wb, file, run, libs, exc, writes, outputs>>

\* The script is invoked again; only the file system carries over.
NextRun ==
    /\ pc \in {"exit", "crashed"}
    /\ run < MaxRuns
    /\ run' = run + 1
    /\ pc' = "import"
    /\ i' = 1
    /\ j' = 1
    /\ wb' = NoWorkbook
    /\ stdout' = <<>>
    /\ exc' = NoExc
    /\ writes' = 0
    /\ libs' \in BOOLEAN
    /\ UNCHANGED <<file, outputs>>

Next ==
    \/ ImportOk
    \/ ImportFail
    \/ EnterMain
    \/ CreateWorkbook
    \/ RemoveDefault
    \/ CreateShipments
    \/ CreateChoices
    \/ WriteHeader
    \/ SetColumnWidth
    \/ WriteChoiceCategory
    \/ AddDropdown
    \/ WriteSample
    \/ CreateInstructions
    \/ WriteInstruction
    \/ Activate
    \/ Save
    \/ SaveFail
    \/ PrintSuccess
    \/ RaiseInBuild
    \/ Handle
    \/ NextRun

Spec == Init /\ [][Next]_vars


(***************************************************************************)
(* How a spreadsheet application reads the references the program wrote.   *)
(***************************************************************************)
IsDigit(c) == \E k \in 1..Len(Digits) : Digits[k] = c

IsLetter(c) == \E k \in 1..Len(Letters) : Letters[k] = c

NotDollar(c) == c # "$"

DigitVal(c) == (CHOOSE k \in 1..Len(Digits) : Digits[k] = c) - 1

LetterVal(c) == CHOOSE k \in 1..Len(Letters) : Letters[k] = c

RECURSIVE NatOfStr(_)
NatOfStr(s) ==
    IF Len(s) = 0 THEN 0
    ELSE NatOfStr(SubSeq(s, 1, Len(s) - 1)) * 10 + DigitVal(s[Len(s)])

RECURSIVE ColumnIndex(_)
ColumnIndex(s) ==
    IF Len(s) = 0 THEN 0
    ELSE ColumnIndex(SubSeq(s, 1, Len(s) - 1)) * 26 + LetterVal(s[Len(s)])

\* Position of the first occurrence of c in s, 0 if there is none.
IndexOf(s, c) ==
    IF \E k \in 1..Len(s) : s[k] = c
    THEN CHOOSE k \in 1..Len(s) : s[k] = c /\ \A m \in 1..(k - 1) : s[m] # c
    ELSE 0

\* A cell reference such as A2 or $C$11: letters, then digits.
WellFormedCell(t) ==
    LET u == SelectSeq(t, NotDollar)
        n == Len(SelectSeq(u, IsLetter))
    IN  /\ n >= 1
        /\ Len(u) > n
        /\ \A k \in 1..Len(u) : IF k <= n THEN IsLetter(u[k]) ELSE IsDigit(u[k])

ParseCell(t) ==
    LET u == SelectSeq(t, NotDollar)
    IN  [column |-> ColumnIndex(SelectSeq(u, IsLetter)),
         row    |-> NatOfStr(SelectSeq(u, IsDigit))]

\* A range such as A2:A1000 or $C$2:$C$11.
WellFormedRange(t) ==
    LET k == IndexOf(t, ":")
    IN  /\ k > 1
        /\ k < Len(t)
        /\ WellFormedCell(SubSeq(t, 1, k - 1))
        /\ WellFormedCell(SubSeq(t, k + 1, Len(t)))

ParseRange(t) ==
    LET k == IndexOf(t, ":")
        a == ParseCell(SubSeq(t, 1, k - 1))
        b == ParseCell(SubSeq(t, k + 1, Len(t)))
    IN  [min_col |-> a.column, min_row |-> a.row,
         max_col |-> b.column, max_row |-> b.row]

\* In the workbook file format a reference to another sheet is written
\* Sheet!Range.  The sheet a formula refers to, <<>> if it names none.
SheetOfFormula(f) ==
    LET k == IndexOf(f, "!") IN IF k > 1 THEN SubSeq(f, 1, k - 1) ELSE <<>>

\* The cell range written in a formula: the text from the first "$" on.
RangeText(f) ==
    LET k == IndexOf(f, "$") IN IF k = 0 THEN <<>> ELSE SubSeq(f, k, Len(f))

Populated(w, title, r, c) ==
    /\ HasSheet(w, title)
    /\ <<r, c>> \in DOMAIN w.sheets[SheetIndex(w, title)].cells

CellValue(w, title, r, c) == w.sheets[SheetIndex(w, title)].cells[<<r, c>>]

\* The dropdown bindings of a workbook: the validations of its Shipments sheet.
Bindings(w) ==
    IF HasSheet(w, "Shipments")
    THEN w.sheets[SheetIndex(w, "Shipments")].validations
    ELSE <<>>

Target(dv) == ParseRange(dv.sqref)

Source(dv) == ParseRange(RangeText(dv.formula1))

Covers(dv, r, c) ==
    /\ Target(dv).min_col <= c /\ c <= Target(dv).max_col
    /\ Target(dv).min_row <= r /\ r <= Target(dv).max_row

\* The rows of column c of Shipments that some binding constrains.
ConstrainedRows(w, c) ==
    UNION {Target(Bindings(w)[m]).min_row..Target(Bindings(w)[m]).max_row :
              m \in {k \in 1..Len(Bindings(w)) :
                        /\ Target(Bindings(w)[k]).min_col <= c
                        /\ c <= Target(Bindings(w)[k]).max_col}}

\* The field each category is for, as the Choices header of the category.
FieldCategory ==
    [h \in {"Client Email", "Payment Method", "From City", "To City",
            "Package Description", "Package Value (EGP)", "Is Large Order"} |->
        CASE h = "Client Email"        -> <<"Client", " ", "Emails">>
          [] h = "Payment Method"      -> <<"Payment", " ", "Methods">>
          [] h = "From City"           -> <<"Cities">>
          [] h = "To City"             -> <<"Cities">>
          [] h = "Package Description" -> <<"Package", " ", "Descriptions">>
          [] h = "Package Value (EGP)" -> <<"Package", " ", "Values">>
          [] h = "Is Large Order"      -> <<"Large", " ", "Order", " ", "Options">>]

\* The Shipments header of the column a binding constrains.
BoundField(w, dv) == CellValue(w, "Shipments", 1, Target(dv).min_col)

HasBoundField(w, dv) ==
    /\ Populated(w, "Shipments", 1, Target(dv).min_col)
    /\ BoundField(w, dv) \in DOMAIN FieldCategory

\* Positions in choices_data of the category with the given Choices header.
CategoryPositions(cat) ==
    {k \in 1..Len(choices_data) : Replace(choices_data[k].category, "_", " ") = cat}

HasLine(text) == \E k \in 1..Len(stdout) : stdout[k].text = text

AllDropdownsAdded(w) == Len(Bindings(w)) = Len(dropdown_calls)


(***************************************************************************)
(* Properties.                                                             *)
(***************************************************************************)

\* C1: for every dropdown binding, the source range on Choices lies in the
\* single column where the binding's category was written (the category's
\* position in choices_data, first category in column A), starts at row 2
\* and ends at row 1 + the category's item count, and the rows it spans are
\* exactly the populated value rows of that column.
C1_SourceRangeExact ==
    \A n \in 1..Len(Bindings(wb)) :
        LET dv  == Bindings(wb)[n]
            src == Source(dv)
            col == src.min_col
        IN  /\ WellFormedRange(RangeText(dv.formula1))
            /\ HasBoundField(wb, dv)
            /\ src.max_col = col
            /\ CategoryPositions(FieldCategory[BoundField(wb, dv)]) = {col}
            /\ Populated(wb, "Choices", 1, col)
            /\ src.min_row = 2
            /\ src.max_row = 1 + Len(choices_data[col].choices)
            /\ \A r \in src.min_row..src.max_row : Populated(wb, "Choices", r, col)
            /\ \A q \in DOMAIN wb.sheets[SheetIndex(wb, "Choices")].cells :
                  (q[2] = col /\ q[1] >= 2) => (src.min_row <= q[1] /\ q[1] <= src.max_row)

\* The binding of the 25-item category (rows 2..26 of column G) exists.
C1_Witness ==
    \E n \in 1..Len(Bindings(wb)) :
        /\ Source(Bindings(wb)[n]).min_col = 7
        /\ Source(Bindings(wb)[n]).max_row = 26

\* C2: for every dropdown binding, formula1 of the list-type rule is a
\* well-formed cross-sheet reference to a cell range of the sheet Choices.
C2_FormulaRefersToChoices ==
    \A n \in 1..Len(Bindings(wb)) :
        LET dv == Bindings(wb)[n]
            k  == IndexOf(dv.formula1, "!")
        IN  /\ dv.type = "list"
            /\ SheetOfFormula(dv.formula1) = <<"Choices">>
            /\ HasSheet(wb, "Choices")
            /\ WellFormedRange(SubSeq(dv.formula1, k + 1, Len(dv.formula1)))

\* C3: every failed run is caught and reported and the program exits
\* normally: a missing library gives the install hint, any other error a
\* diagnostic carrying its message; no exception is left uncaught.
C3_FailuresCaughtAndReported ==
    /\ pc # "crashed"
    /\ (pc = "exit" /\ exc # NoExc) =>
          IF IsImportError(exc)
          THEN \E k \in 1..Len(stdout) : stdout[k].text = "pip install pandas openpyxl"
          ELSE \E k \in 1..Len(stdout) :
                  stdout[k] = Line("Error creating template: ", exc.msg)

\* C4: in every column of Shipments that carries a binding, each row from 2
\* to 1000 is constrained and rows 1 and 1001 are not.
C4_RowsTwoToThousand ==
    \A n \in 1..Len(Bindings(wb)) :
        LET dv == Bindings(wb)[n]
        IN  /\ WellFormedRange(dv.sqref)
            /\ \A c \in Target(dv).min_col..Target(dv).max_col :
                  ConstrainedRows(wb, c) \cap 1..1001 = 2..1000

\* All seven bindings exist and row 1000 of column P is constrained.
C4_Witness ==
    /\ AllDropdownsAdded(wb)
    /\ \E n \in 1..Len(Bindings(wb)) : Covers(Bindings(wb)[n], 1000, 16)

\* C5: every sample value written in rows 2 and 3 of a column that carries
\* a binding is a member of the list that binding's source range holds.
C5_SamplesSatisfyDropdowns ==
    \A n \in 1..Len(Bindings(wb)) :
        LET dv  == Bindings(wb)[n]
            src == Source(dv)
        IN  \A r \in {2, 3} :
                \A c \in Target(dv).min_col..Target(dv).max_col :
                    Populated(wb, "Shipments", r, c) =>
                        \E a \in src.min_row..src.max_row :
                            \E b \in src.min_col..src.max_col :
                                /\ Populated(wb, "Choices", a, b)
                                /\ CellValue(wb, "Choices", a, b) =
                                       CellValue(wb, "Shipments", r, c)

\* Both sample rows are complete and the bindings are in place.
C5_Witness ==
    /\ pc = "create_instructions"
    /\ AllDropdownsAdded(wb)
    /\ Populated(wb, "Shipments", 2, 14)
    /\ Populated(wb, "Shipments", 3, 14)

ThreeSheets(w) ==
    /\ Len(w.sheets) = 3
    /\ {w.sheets[k].title : k \in 1..Len(w.sheets)} =
           {"Shipments", "Choices", "Instructions"}
    /\ w.active + 1 \in 1..Len(w.sheets)
    /\ w.sheets[w.active + 1].title = "Shipments"

\* C6: the workbook that is saved has exactly the three sheets Shipments,
\* Choices and Instructions, and Shipments is its active sheet.
C6_ThreeSheetsShipmentsActive ==
    /\ pc = "save" => ThreeSheets(wb)
    /\ file.state = "written" => ThreeSheets(file.doc)
    /\ \A k \in 1..Len(outputs) : ThreeSheets(outputs[k])

\* A run has saved the workbook.
C6_Witness == file.state = "written" /\ pc = "print_success"

AfterHeaders ==
    {"widths", "choices", "dropdowns", "samples", "create_instructions",
     "instructions", "set_active", "save", "print_success"}

AfterSamples ==
    {"create_instructions", "instructions", "set_active", "save", "print_success"}

HeaderRowExact(w) ==
    LET cells == w.sheets[SheetIndex(w, "Shipments")].cells
    IN  /\ Len(headers) = 19
        /\ \A c \in 1..19 : <<1, c>> \in DOMAIN cells /\ cells[<<1, c>>] = headers[c]
        /\ \A q \in DOMAIN cells : q[1] = 1 => q[2] <= 19

SampleRowsExact(w) ==
    LET cells == w.sheets[SheetIndex(w, "Shipments")].cells
    IN  /\ \A r \in {2, 3} :
            /\ Len(sample_data[r - 1]) = 19
            /\ \A c \in 1..19 :
                  <<r, c>> \in DOMAIN cells /\ cells[<<r, c>>] = sample_data[r - 1][c]
        /\ \A q \in DOMAIN cells : q[2] <= 19 /\ q[1] <= 3

\* C7: once the header loop is done, row 1 of Shipments holds the 19 headers
\* in order, header i in column i, and nothing from column 20 on; this stays
\* so while and after the sample rows are written, and each sample row has
\* exactly 19 values, one per header column.
C7_HeaderRowAndSampleRows ==
    /\ pc \in AfterHeaders => HeaderRowExact(wb)
    /\ pc \in AfterSamples => SampleRowsExact(wb)
    /\ file.state = "written" => HeaderRowExact(file.doc) /\ SampleRowsExact(file.doc)

\* The last sample value has just been written.
C7_Witness ==
    /\ pc = "create_instructions"
    /\ Populated(wb, "Shipments", 3, 19)
    /\ ~HasSheet(wb, "Instructions")

\* C8: every run that saves the workbook saves the same document (sheets,
\* cell values, column widths, dropdown bindings), whatever was at the
\* output path before, and the file then holds that document.
C8_RunsProduceSameDocument ==
    /\ \A a \in 1..Len(outputs) : \A b \in 1..Len(outputs) : outputs[a] = outputs[b]
    /\ file.state = "written" => (Len(outputs) > 0 /\ file.doc = outputs[1])

\* Two runs have saved the workbook.
C8_Witness == Len(outputs) >= 2 /\ run >= 2

\* C9: each binding constrains the column whose header names the field its
\* category is for; once all are added the bound columns are exactly the
\* seven fields; no Shipments cell is covered by two bindings.
C9_LettersMatchHeaders ==
    /\ \A n \in 1..Len(Bindings(wb)) :
          LET dv == Bindings(wb)[n]
          IN  /\ Target(dv).min_col = Target(dv).max_col
              /\ HasBoundField(wb, dv)
              /\ Populated(wb, "Choices", 1, Source(dv).min_col)
              /\ CellValue(wb, "Choices", 1, Source(dv).min_col) =
                     FieldCategory[BoundField(wb, dv)]
    /\ AllDropdownsAdded(wb) =>
          {BoundField(wb, Bindings(wb)[n]) : n \in 1..Len(Bindings(wb))} =
              DOMAIN FieldCategory
    /\ \A n \in 1..Len(Bindings(wb)) : \A m \in 1..Len(Bindings(wb)) :
          n # m =>
              \/ Target(Bindings(wb)[n]).max_col < Target(Bindings(wb)[m]).min_col
              \/ Target(Bindings(wb)[m]).max_col < Target(Bindings(wb)[n]).min_col
              \/ Target(Bindings(wb)[n]).max_row < Target(Bindings(wb)[m]).min_row
              \/ Target(Bindings(wb)[m]).max_row < Target(Bindings(wb)[n]).min_row

\* All bindings exist; From City and To City use the same source range.
C9_Witness ==
    /\ AllDropdownsAdded(wb)
    /\ \E n \in 1..Len(Bindings(wb)) : \E m \in 1..Len(Bindings(wb)) :
          /\ Target(Bindings(wb)[n]).min_col = 8
          /\ Target(Bindings(wb)[m]).min_col = 12
          /\ Bindings(wb)[n].formula1 = Bindings(wb)[m].formula1

Built(w) ==
    /\ ThreeSheets(w)
    /\ AllDropdownsAdded(w)
    /\ SampleRowsExact(w)
    /\ \A k \in 1..Len(instructions) : Populated(w, "Instructions", k, 1)

SuccessPrinted == HasLine("Template created successfully: ")

\* C10: in a run the file is written at most once and only when the three
\* sheets, the bindings and the sample rows are built and Shipments is
\* active; the success confirmation is printed only after the write has
\* completed; a run whose construction or write failed has printed the
\* failure diagnostic when it ends and never prints the confirmation.
C10_WriteOnceThenConfirm ==
    /\ writes <= 1
    /\ writes = 1 => Built(wb)
    /\ SuccessPrinted => (writes = 1 /\ exc = NoExc /\ file = Written(wb))
    /\ exc # NoExc => ~SuccessPrinted
    /\ (pc = "exit" /\ exc # NoExc) => HasLine("Error creating template: ")
    /\ (pc = "exit" /\ exc = NoExc) => SuccessPrinted

\* A run whose write broke off part-way has ended.
C10_Witness == pc = "exit" /\ exc # NoExc /\ writes = 1 /\ file = Partial

====
